---- MODULE Spec2Model ----
(***************************************************************************)
(* financeOS sync-service: the two statement-download pipelines.           *)
(*                                                                         *)
(*   financedl/config.py  session pipeline: build_config + __main__        *)
(*   ofx/client.py        direct-connect pipeline: download_ofx + __main__ *)
(*                                                                         *)
(* A behaviour runs ONE pipeline: either one invocation of config.py, or   *)
(* the invocations of client.py in Invocations, interleaved, sharing the   *)
(* filesystem and the wall clock.  Strings are TLA+ strings, Python dicts  *)
(* are records / functions, an optional value is a sequence of length 0    *)
(* or 1, and os.environ is a function whose DOMAIN is the variables set.   *)
(***************************************************************************)
EXTENDS Integers, Sequences, FiniteSets, TLC

(***************************************************************************)
(* Bounds of the model.                                                    *)
(***************************************************************************)
\* longest --institutions list explored
MaxReq == 2
\* last clock tick explored
MaxClock == 2
\* clock ticks per wall-clock second (strftime drops the sub-second part)
TicksPerSecond == 2

\* the direct-connect invocations that may run concurrently
Invocations == {1, 2}

(***************************************************************************)
(* Python helpers.                                                         *)
(***************************************************************************)
\* os.environ.get(key, default)
EnvironGet(env, key, default) == IF key \in DOMAIN env THEN env[key] ELSE default

\* os.path.join(a, b) for a relative b and an a without trailing separator
PathJoin(a, b) == IF a = "" THEN b ELSE a \o "/" \o b

\* set of the elements of a sequence
Range(s) == {s[i] : i \in 1..Len(s)}

\* all sequences over S of length lo..hi
SeqsOf(S, lo, hi) == UNION {[1..n -> S] : n \in lo..hi}

\* os.environ restricted to `keys`: each key unset, set to "", or set to v
Environs(keys, v) == UNION {[K -> {"", v}] : K \in SUBSET keys}

(***************************************************************************)
(* financedl/config.py                                                     *)
(***************************************************************************)
INSTITUTION_MODULES ==
    [capitalone |-> "finance_dl.capitalone",
     macu       |-> "finance_dl.mountain_america",
     m1finance  |-> "finance_dl.m1finance"]

ENV_KEYS ==
    [capitalone |-> <<"CAPITALONE_USERNAME", "CAPITALONE_PASSWORD">>,
     macu       |-> <<"MACU_USERNAME",       "MACU_PASSWORD">>,
     m1finance  |-> <<"M1_USERNAME",         "M1_PASSWORD">>]

config_path == "/tmp/financedl_config.py"

\* identities a caller may pass to --institutions (argparse does not restrict
\* them): the registry and one identity outside it
RequestableIds == DOMAIN ENV_KEYS \cup {"venmo"}

DownloadsDirs == {"/app/downloads", "/tmp/x"}

\* identities a caller may pass to download_ofx: the registry and one outside it
CallableIds == {"chase", "usaa", "venmo"}

\* last components of the directories the pipelines make
LeafNames == RequestableIds \cup CallableIds

\* the environment variables build_config reads for the request `insts`
RequestedEnvKeys(insts) ==
    UNION {Range(ENV_KEYS[k]) : k \in Range(insts) \cap DOMAIN ENV_KEYS}

VARIABLES
    s_pc,          \* config.py: "off", "build_config", "main", "exited"
    institutions,  \* args.institutions
    downloads_dir, \* args.downloads_dir
    s_environ,     \* os.environ of the config.py process
    idx,           \* position of the for loop of build_config (1-based)
    cfg,           \* the dict cfg: [keys: insertion order, val: key -> entry]
    s_stderr,      \* diagnostics printed by build_config
    artifact,      \* <<>> or <<the file at config_path: [entries, complete, run]>>
    s_stdout,      \* JSON results printed by config.py
    s_exit,        \* <<>> or <<exit code>>
    s_fault,       \* <<>> or <<statement whose exception was not handled>>
    dirs,          \* directories that exist
    files,         \* statement files: path -> [data, by: invocation that last stored, 0 for an earlier run]
    clock,         \* wall clock, in ticks
    HAS_OFXTOOLS,  \* whether the import of ofxtools succeeded
    entry,         \* per invocation: "off", "main" (client.py run), "func" (download_ofx called)
    args,          \* per invocation: parsed command line [institution, days, output]
    o_environ,     \* per invocation: os.environ of the process
    call,          \* per invocation: <<>> or <<arguments of download_ofx>>
    o_pc,          \* per invocation: position
    stmtrq,        \* per invocation: <<>> or <<StmtRq built>>
    network,       \* per invocation: statement requests sent to the endpoint
    response,      \* per invocation: <<>> or <<response of request_statements>>
    wrote,         \* per invocation: <<>> or <<[path, second, complete] of the file it opened>>
    result,        \* per invocation: <<>> or <<dict returned by download_ofx>>
    o_stdout,      \* per invocation: JSON results printed
    o_exit,        \* per invocation: <<>> or <<exit code>>
    o_fault        \* per invocation: <<>> or <<statement whose exception was not handled>>

sessionVars == <<s_pc, institutions, downloads_dir, s_environ, idx, cfg, s_stderr,
                 artifact, s_stdout, s_exit, s_fault>>
fsVars == <<dirs, files>>
ofxVars == <<clock, HAS_OFXTOOLS, entry, args, o_environ, call, o_pc, stmtrq,
             network, response, wrote, result, o_stdout, o_exit, o_fault>>
vars == <<sessionVars, fsVars, ofxVars>>

\* the empty dict
EmptyDict == [keys |-> <<>>, val |-> <<>>]

\* mutant of DictSet: a new key goes first
DictSetPrepend(d, k, v) ==
    IF k \in Range(d.keys)
    THEN [keys |-> d.keys, val |-> [x \in Range(d.keys) |-> IF x = k THEN v ELSE d.val[x]]]
    ELSE [keys |-> <<k>> \o d.keys,
          val  |-> [x \in Range(d.keys) \cup {k} |-> IF x = k THEN v ELSE d.val[x]]]

\* d[k] = v on a dict: a new key goes last, an existing key keeps its place
DictSet(d, k, v) ==
    IF k \in Range(d.keys)
    THEN [keys |-> d.keys, val |-> [x \in Range(d.keys) |-> IF x = k THEN v ELSE d.val[x]]]
    ELSE [keys |-> Append(d.keys, k),
          val  |-> [x \in Range(d.keys) \cup {k} |-> IF x = k THEN v ELSE d.val[x]]]

\* cfg.items(): the entries in insertion order
DictItems(d) == [i \in 1..Len(d.keys) |-> [key |-> d.keys[i], val |-> d.val[d.keys[i]]]]

\* ENV_KEYS.get(inst, (None, None)) yields a real key
KnownSession(inst) == inst \in DOMAIN ENV_KEYS

\* mutant of NoCredentials: `not username and not password`
NoCredentialsBothEmpty(username, password) == username = "" /\ password = ""

\* `not username or not password`
NoCredentials(username, password) == username = "" \/ password = ""

\* the entry build_config stores for inst
OutputConfig(inst, username, password, out_dir) ==
    [module           |-> INSTITUTION_MODULES[inst],
     username         |-> username,
     password         |-> password,
     output_directory |-> out_dir,
     output_format    |-> "ofx"]

\* the directories above p that mkdir(parents=True) may have to make
Parents(p) == {a \in DownloadsDirs : \E leaf \in LeafNames : PathJoin(a, leaf) = p}

\* Path(p).mkdir(parents=True, exist_ok=True)
Mkdir(existing, p) == existing \cup Parents(p) \cup {p}

\* the directories there may be after that mkdir raised OSError: it failed on
\* the parent and made nothing, or made the parent and failed on p
MkdirFailed(existing, p) == {existing, existing \cup Parents(p)}

s_inst == institutions[idx]
s_username == EnvironGet(s_environ, ENV_KEYS[s_inst][1], "")
s_password == EnvironGet(s_environ, ENV_KEYS[s_inst][2], "")

\* an uncaught exception: traceback on stderr, exit status 1, nothing on stdout
SessionCrash(stmt) ==
    /\ s_pc' = "exited"
    /\ s_exit' = <<1>>
    /\ s_fault' = <<stmt>>

\* mutant of BuildConfigSkipUnknown: `break` in place of `continue`
BuildConfigUnknownBreaks ==
    /\ s_pc = "build_config"
    /\ idx <= Len(institutions)
    /\ institutions[idx] \notin DOMAIN ENV_KEYS
    /\ idx' = Len(institutions) + 1
    /\ UNCHANGED <<s_pc, institutions, downloads_dir, s_environ, cfg, s_stderr,
                   artifact, s_stdout, s_exit, s_fault, fsVars, ofxVars>>

\* build_config, one loop iteration: the identity has no ENV_KEYS entry
BuildConfigSkipUnknown ==
    /\ s_pc = "build_config"
    /\ idx <= Len(institutions)
    /\ ~KnownSession(s_inst)
    /\ idx' = idx + 1
    /\ UNCHANGED <<s_pc, institutions, downloads_dir, s_environ, cfg, s_stderr,
                   artifact, s_stdout, s_exit, s_fault, fsVars, ofxVars>>

\* build_config, one loop iteration: a credential is unset or empty
BuildConfigSkipNoCredentials ==
    /\ s_pc = "build_config"
    /\ idx <= Len(institutions)
    /\ KnownSession(s_inst)
    /\ NoCredentials(s_username, s_password)
    /\ s_stderr' = Append(s_stderr, s_inst)
    /\ idx' = idx + 1
    /\ UNCHANGED <<s_pc, institutions, downloads_dir, s_environ, cfg,
                   artifact, s_stdout, s_exit, s_fault, fsVars, ofxVars>>

\* build_config, one loop iteration: the directory is made and the entry stored
BuildConfigAdd ==
    /\ s_pc = "build_config"
    /\ idx <= Len(institutions)
    /\ KnownSession(s_inst)
    /\ ~NoCredentials(s_username, s_password)
    /\ dirs' = Mkdir(dirs, PathJoin(downloads_dir, s_inst))
    /\ cfg' = DictSet(cfg, s_inst,
                      OutputConfig(s_inst, s_username, s_password,
                                   PathJoin(downloads_dir, s_inst)))
    /\ idx' = idx + 1
    /\ UNCHANGED <<s_pc, institutions, downloads_dir, s_environ, s_stderr,
                   artifact, s_stdout, s_exit, s_fault, files, ofxVars>>

\* build_config, one loop iteration: mkdir raises OSError, which nothing catches;
\* a parent it had made stays
BuildConfigMkdirFails ==
    /\ s_pc = "build_config"
    /\ idx <= Len(institutions)
    /\ KnownSession(s_inst)
    /\ ~NoCredentials(s_username, s_password)
    /\ dirs' \in MkdirFailed(dirs, PathJoin(downloads_dir, s_inst))
    /\ SessionCrash("mkdir")
    /\ UNCHANGED <<institutions, downloads_dir, s_environ, idx, cfg, s_stderr,
                   artifact, s_stdout, files, ofxVars>>

\* build_config returns cfg
BuildConfigReturn ==
    /\ s_pc = "build_config"
    /\ idx > Len(institutions)
    /\ s_pc' = "main"
    /\ UNCHANGED <<institutions, downloads_dir, s_environ, idx, cfg, s_stderr,
                   artifact, s_stdout, s_exit, s_fault, fsVars, ofxVars>>

\* the file at config_path after this run wrote `entries` to it; `complete` when
\* every line, the closing brace included, was written and the file closed
Artifact(entries, complete) == [entries |-> entries, complete |-> complete, run |-> "this"]

\* a file an earlier run of config.py left at config_path
StaleArtifact ==
    [entries  |-> <<[key |-> "macu",
                     val |-> [module |-> "finance_dl.mountain_america",
                              username |-> "old", password |-> "old",
                              output_directory |-> "/old/macu", output_format |-> "ofx"]]>>,
     complete |-> TRUE,
     run      |-> "earlier"]

\* mutant of MainNoCredentials: the config file is opened before cfg is tested
MainNoCredentialsAfterWrite ==
    /\ s_pc = "main"
    /\ cfg.keys = <<>>
    /\ artifact' = <<Artifact(DictItems(cfg), TRUE)>>
    /\ s_stdout' = Append(s_stdout,
                          [status |-> "error", message |-> "No credentials configured"])
    /\ s_exit' = <<1>>
    /\ s_pc' = "exited"
    /\ UNCHANGED <<institutions, downloads_dir, s_environ, idx, cfg, s_stderr,
                   s_fault, fsVars, ofxVars>>

\* __main__: `if not cfg`
MainNoCredentials ==
    /\ s_pc = "main"
    /\ cfg.keys = <<>>
    /\ s_stdout' = Append(s_stdout,
                          [status |-> "error", message |-> "No credentials configured"])
    /\ s_exit' = <<1>>
    /\ s_pc' = "exited"
    /\ UNCHANGED <<institutions, downloads_dir, s_environ, idx, cfg, s_stderr,
                   artifact, s_fault, fsVars, ofxVars>>

\* __main__: the config file is written and the ok result printed
MainWriteConfig ==
    /\ s_pc = "main"
    /\ cfg.keys # <<>>
    /\ artifact' = <<Artifact(DictItems(cfg), TRUE)>>
    /\ s_stdout' = Append(s_stdout,
                          [status |-> "ok", config |-> config_path, sources |-> cfg.keys])
    /\ s_exit' = <<0>>
    /\ s_pc' = "exited"
    /\ UNCHANGED <<institutions, downloads_dir, s_environ, idx, cfg, s_stderr,
                   s_fault, fsVars, ofxVars>>

\* __main__: open(config_path, 'w') raises OSError, which nothing catches; the
\* file, if any, is left as it was
MainOpenConfigFails ==
    /\ s_pc = "main"
    /\ cfg.keys # <<>>
    /\ SessionCrash("open_config")
    /\ UNCHANGED <<institutions, downloads_dir, s_environ, idx, cfg, s_stderr,
                   artifact, s_stdout, fsVars, ofxVars>>

\* __main__: open has created or truncated the file, then f.write or the close
\* raises OSError, which nothing catches; the file holds the first k entries
\* (and possibly part of the next line), not the closing brace
MainWriteConfigFails ==
    /\ s_pc = "main"
    /\ cfg.keys # <<>>
    /\ \E k \in 0..Len(cfg.keys) :
          artifact' = <<Artifact(SubSeq(DictItems(cfg), 1, k), FALSE)>>
    /\ SessionCrash("write_config")
    /\ UNCHANGED <<institutions, downloads_dir, s_environ, idx, cfg, s_stderr,
                   s_stdout, fsVars, ofxVars>>

(***************************************************************************)
(* ofx/client.py                                                           *)
(***************************************************************************)
INSTITUTIONS ==
    [chase |-> [url |-> "https://ofx.chase.com", fid |-> "10898",
                org |-> "B1", bankid |-> "072000326"],
     usaa  |-> [url |-> "https://service2.usaa.com/ofx/OFXServer", fid |-> "24591",
                org |-> "USAA", bankid |-> "314074269"]]

\* str.upper() on the registry's keys
Upper(s) == CASE s = "chase" -> "CHASE" [] s = "usaa" -> "USAA"

\* default of --days
DefaultDays == 30

\* str(e) of the exceptions the protocol session may raise; str(Exception()) is ""
ProtocolErrors == {"", "HTTP Error 401: Unauthorized"}

\* values of --days / the days argument: the default, and one beyond the range of datetime
DaysInputs == {DefaultDays, 800000}

\* proleptic Gregorian ordinal of the day the clock runs in (2024-01-01)
Today == 738886

\* datetime.now(UTC) - timedelta(days=days) raises OverflowError: the timedelta
\* or the resulting date (ordinal 1 .. 3652059) is out of range
WindowOverflows(days) ==
    \/ days > 999999999
    \/ days < -999999999
    \/ Today - days < 1
    \/ Today - days > 3652059

\* str(e) of what OFXClient(...) or StmtRq(...) may raise
ConstructorErrors == {"unexpected keyword"}

\* os.strerror(n) for the error numbers open(2), write(2) and close(2) document
Strerror(n) ==
    CASE n = 1   -> "Operation not permitted"
      [] n = 2   -> "No such file or directory"
      [] n = 5   -> "Input/output error"
      [] n = 6   -> "No such device or address"
      [] n = 11  -> "Resource temporarily unavailable"
      [] n = 12  -> "Cannot allocate memory"
      [] n = 13  -> "Permission denied"
      [] n = 16  -> "Device or resource busy"
      [] n = 19  -> "No such device"
      [] n = 20  -> "Not a directory"
      [] n = 21  -> "Is a directory"
      [] n = 22  -> "Invalid argument"
      [] n = 23  -> "Too many open files in system"
      [] n = 24  -> "Too many open files"
      [] n = 26  -> "Text file busy"
      [] n = 27  -> "File too large"
      [] n = 28  -> "No space left on device"
      [] n = 30  -> "Read-only file system"
      [] n = 32  -> "Broken pipe"
      [] n = 36  -> "File name too long"
      [] n = 40  -> "Too many levels of symbolic links"
      [] n = 75  -> "Value too large for defined data type"
      [] n = 95  -> "Operation not supported"
      [] n = 116 -> "Stale file handle"
      [] n = 122 -> "Disk quota exceeded"

\* str(OSError(n, strerror)): no file name
OsError(n) == "[Errno " \o ToString(n) \o "] " \o Strerror(n)

\* str(OSError(n, strerror, filename))
OsErrorAt(n, path) == OsError(n) \o ": '" \o path \o "'"

\* the error numbers open(path, 'wb') may fail with (an interrupted call is retried)
OpenErrnos == {1, 2, 5, 6, 12, 13, 16, 19, 20, 21, 22, 23, 24, 26, 27, 28, 30, 36,
               40, 75, 95, 116, 122}

\* the error numbers f.write or the close may fail with
WriteErrnos == {1, 5, 11, 22, 27, 28, 32, 122}

\* str(e) of the OSError open(path, 'wb') may raise: it names the file
OpenErrors(path) == {OsErrorAt(n, path) : n \in OpenErrnos}

\* str(e) of what response.read() may raise once the file is open
ReadErrors == {"[Errno 104] Connection reset by peer"}

\* str(e) of the TypeError f.write raises when read() returned a str
NotBytesErrors == {"a bytes-like object is required, not 'str'"}

\* str(e) of the OSError f.write or the close may raise: it names no file
DataErrors == {OsError(n) : n \in WriteErrnos}

\* the response request_statements returns: its body is not read yet
Response == [status |-> 200]

\* the bytes response.read() returns
ResponseBytes == "OFXHEADER:100"

\* a proper, non-empty prefix of the bytes
PartialBytes == "OFXHE"

\* how f.write may fail: the exception, and what of the bytes reached the file
\* (none or a part of them on an OSError, none on the TypeError)
WriteFailures ==
    {[error |-> e, data |-> d] : e \in DataErrors, d \in {"", PartialBytes}}
      \cup {[error |-> e, data |-> ""] : e \in NotBytesErrors}

Digit(n) ==
    CASE n = 0 -> "0" [] n = 1 -> "1" [] n = 2 -> "2" [] n = 3 -> "3" [] n = 4 -> "4"
      [] n = 5 -> "5" [] n = 6 -> "6" [] n = 7 -> "7" [] n = 8 -> "8" [] n = 9 -> "9"

\* %H, %M, %S: two digits, zero padded
TwoDigits(n) == Digit((n \div 10) % 10) \o Digit(n % 10)

\* datetime.now().strftime('%Y%m%d_%H%M%S'); tick 0 is 2024-01-01 00:00:00 local
\* time and the clock stays within that day
Strftime(t) ==
    LET s == t \div TicksPerSecond
    IN  "20240101_" \o TwoDigits((s \div 3600) % 24) \o TwoDigits((s \div 60) % 60)
                    \o TwoDigits(s % 60)

\* mutant of StatementName: the institution prefix left out
StatementNameNoInstitution(institution, t) == Strftime(t) \o ".ofx"

\* the name of the statement file
StatementName(institution, t) == institution \o "_" \o Strftime(t) \o ".ofx"

\* mutant of MissingCredentials: only the username is tested
MissingUsernameOnly(username, password) == username = ""

\* `not username or not password`
MissingCredentials(username, password) == username = "" \/ password = ""

\* INSTITUTIONS.get(institution) is truthy
KnownDirect(institution) == institution \in DOMAIN INSTITUTIONS

m_username(i) == EnvironGet(o_environ[i], Upper(args[i].institution) \o "_USERNAME", "")
m_password(i) == EnvironGet(o_environ[i], Upper(args[i].institution) \o "_PASSWORD", "")

\* whether invocation i has not ended
Running(i) == o_pc[i] \in {"main", "download_ofx", "request", "open", "write", "return"}

\* download_ofx returns r: to __main__, or to the caller of the function
Return(i, r) ==
    /\ result' = [result EXCEPT ![i] = <<r>>]
    /\ o_pc' = [o_pc EXCEPT ![i] = IF entry[i] = "main" THEN "return" ELSE "returned"]

\* download_ofx raises: an uncaught exception ends __main__ with a traceback and
\* exit status 1, or propagates to the caller of the function
Raise(i, stmt) ==
    /\ o_fault' = [o_fault EXCEPT ![i] = <<stmt>>]
    /\ o_pc' = [o_pc EXCEPT ![i] = IF entry[i] = "main" THEN "exited" ELSE "raised"]
    /\ o_exit' = [o_exit EXCEPT ![i] = IF entry[i] = "main" THEN <<1>> ELSE <<>>]

\* __main__: a credential is unset or empty
MainMissingCredentials(i) ==
    /\ o_pc[i] = "main"
    /\ MissingCredentials(m_username(i), m_password(i))
    /\ o_stdout' = [o_stdout EXCEPT ![i] =
           Append(@, [success |-> FALSE, error |-> "Missing credentials", files |-> <<>>])]
    /\ o_exit' = [o_exit EXCEPT ![i] = <<1>>]
    /\ o_pc' = [o_pc EXCEPT ![i] = "exited"]
    /\ UNCHANGED <<sessionVars, fsVars, clock, HAS_OFXTOOLS, entry, args, o_environ, call,
                   stmtrq, network, response, wrote, result, o_fault>>

\* __main__: download_ofx is called
MainCall(i) ==
    /\ o_pc[i] = "main"
    /\ ~MissingCredentials(m_username(i), m_password(i))
    /\ call' = [call EXCEPT ![i] =
           <<[institution |-> args[i].institution,
              username    |-> m_username(i),
              password    |-> m_password(i),
              days        |-> args[i].days,
              output_dir  |-> PathJoin(args[i].output, args[i].institution)]>>]
    /\ o_pc' = [o_pc EXCEPT ![i] = "download_ofx"]
    /\ UNCHANGED <<sessionVars, fsVars, clock, HAS_OFXTOOLS, entry, args, o_environ,
                   stmtrq, network, response, wrote, result, o_stdout, o_exit, o_fault>>

\* download_ofx: `if not HAS_OFXTOOLS`
DownloadNoOfxtools(i) ==
    /\ o_pc[i] = "download_ofx"
    /\ ~HAS_OFXTOOLS
    /\ Return(i, [success |-> FALSE, error |-> "ofxtools not installed", files |-> <<>>])
    /\ UNCHANGED <<sessionVars, fsVars, clock, HAS_OFXTOOLS, entry, args, o_environ, call,
                   stmtrq, network, response, wrote, o_stdout, o_exit, o_fault>>

\* mutant of DownloadUnknownInstitution: the registry is consulted before HAS_OFXTOOLS
DownloadUnknownInstitutionFirst(i) ==
    /\ o_pc[i] = "download_ofx"
    /\ call[i][1].institution \notin DOMAIN INSTITUTIONS
    /\ Return(i, [success |-> FALSE,
                  error   |-> "Unknown institution: " \o call[i][1].institution,
                  files   |-> <<>>])
    /\ UNCHANGED <<sessionVars, fsVars, clock, HAS_OFXTOOLS, entry, args, o_environ, call,
                   stmtrq, network, response, wrote, o_stdout, o_exit, o_fault>>

\* download_ofx: `if not cfg`
DownloadUnknownInstitution(i) ==
    /\ o_pc[i] = "download_ofx"
    /\ HAS_OFXTOOLS
    /\ ~KnownDirect(call[i][1].institution)
    /\ Return(i, [success |-> FALSE,
                  error   |-> "Unknown institution: " \o call[i][1].institution,
                  files   |-> <<>>])
    /\ UNCHANGED <<sessionVars, fsVars, clock, HAS_OFXTOOLS, entry, args, o_environ, call,
                   stmtrq, network, response, wrote, o_stdout, o_exit, o_fault>>

\* download_ofx: the output directory is made and the request window computed
\* (dtstart and dtend by the day they fall on; the clock stays within Today)
DownloadMkdir(i) ==
    /\ o_pc[i] = "download_ofx"
    /\ HAS_OFXTOOLS
    /\ KnownDirect(call[i][1].institution)
    /\ ~WindowOverflows(call[i][1].days)
    /\ dirs' = Mkdir(dirs, call[i][1].output_dir)
    /\ stmtrq' = [stmtrq EXCEPT ![i] =
           <<[acctid   |-> "",
              accttype |-> "CHECKING",
              dtstart  |-> Today - call[i][1].days,
              dtend    |-> Today,
              bankid   |-> INSTITUTIONS[call[i][1].institution].bankid]>>]
    /\ o_pc' = [o_pc EXCEPT ![i] = "request"]
    /\ UNCHANGED <<sessionVars, files, clock, HAS_OFXTOOLS, entry, args, o_environ, call,
                   network, response, wrote, result, o_stdout, o_exit, o_fault>>

\* download_ofx: mkdir raises OSError outside the try statement; a parent it had
\* made stays
DownloadMkdirFails(i) ==
    /\ o_pc[i] = "download_ofx"
    /\ HAS_OFXTOOLS
    /\ KnownDirect(call[i][1].institution)
    /\ dirs' \in MkdirFailed(dirs, call[i][1].output_dir)
    /\ Raise(i, "mkdir")
    /\ UNCHANGED <<sessionVars, files, clock, HAS_OFXTOOLS, entry, args, o_environ, call,
                   stmtrq, network, response, wrote, result, o_stdout>>

\* download_ofx: the directory is made, then `datetime.now(UTC) - timedelta(days)`
\* raises OverflowError outside the try statement
DownloadWindowOverflows(i) ==
    /\ o_pc[i] = "download_ofx"
    /\ HAS_OFXTOOLS
    /\ KnownDirect(call[i][1].institution)
    /\ WindowOverflows(call[i][1].days)
    /\ dirs' = Mkdir(dirs, call[i][1].output_dir)
    /\ Raise(i, "dtstart")
    /\ UNCHANGED <<sessionVars, files, clock, HAS_OFXTOOLS, entry, args, o_environ, call,
                   stmtrq, network, response, wrote, result, o_stdout>>

\* download_ofx: OFXClient(...) or StmtRq(...) raises before any request is sent,
\* `except Exception` returns the failure
ConstructorFails(i) ==
    /\ o_pc[i] = "request"
    /\ \E msg \in ConstructorErrors :
          Return(i, [success |-> FALSE, error |-> msg, files |-> <<>>,
                     institution |-> call[i][1].institution])
    /\ UNCHANGED <<sessionVars, fsVars, clock, HAS_OFXTOOLS, entry, args, o_environ, call,
                   stmtrq, network, response, wrote, o_stdout, o_exit, o_fault>>

\* the request OFXClient.request_statements sends
Request(i) ==
    LET c == call[i][1]
        r == INSTITUTIONS[c.institution]
    IN  [url |-> r.url, userid |-> c.username, userpass |-> c.password,
         org |-> r.org, fid |-> r.fid, version |-> 220, stmtrq |-> stmtrq[i][1]]

\* download_ofx: request_statements returns a response
RequestStatements(i) ==
    /\ o_pc[i] = "request"
    /\ network' = [network EXCEPT ![i] = Append(@, Request(i))]
    /\ response' = [response EXCEPT ![i] = <<Response>>]
    /\ o_pc' = [o_pc EXCEPT ![i] = "open"]
    /\ UNCHANGED <<sessionVars, fsVars, clock, HAS_OFXTOOLS, entry, args, o_environ, call,
                   stmtrq, wrote, result, o_stdout, o_exit, o_fault>>

\* download_ofx: request_statements raises, `except Exception` returns the failure
RequestFails(i) ==
    /\ o_pc[i] = "request"
    /\ network' = [network EXCEPT ![i] = Append(@, Request(i))]
    /\ \E msg \in ProtocolErrors :
          Return(i, [success |-> FALSE, error |-> msg, files |-> <<>>,
                     institution |-> call[i][1].institution])
    /\ UNCHANGED <<sessionVars, fsVars, clock, HAS_OFXTOOLS, entry, args, o_environ, call,
                   stmtrq, response, wrote, o_stdout, o_exit, o_fault>>

\* the wall-clock second of a tick
SecondOf(t) == t \div TicksPerSecond

\* the path download_ofx writes at tick t
Fname(i, t) == PathJoin(call[i][1].output_dir, StatementName(call[i][1].institution, t))

\* the file system after invocation i stored `data` at `path`
WriteBytes(fs, path, data, i) ==
    [p \in DOMAIN fs \cup {path} |-> IF p = path THEN [data |-> data, by |-> i] ELSE fs[p]]

\* what a file holding `old` holds after `new` is written at offset 0 through a
\* descriptor of its own; every content written is a prefix of ResponseBytes, so
\* the result is the longer of the two
WriteAt0(old, new) == IF Len(new) >= Len(old) THEN new ELSE old

\* download_ofx: fname is computed and open(fname, 'wb') creates the file, or
\* truncates the one that is there
OpenFile(i) ==
    /\ o_pc[i] = "open"
    /\ files' = WriteBytes(files, Fname(i, clock), "", i)
    /\ wrote' = [wrote EXCEPT ![i] =
           <<[path |-> Fname(i, clock), second |-> SecondOf(clock), complete |-> FALSE]>>]
    /\ o_pc' = [o_pc EXCEPT ![i] = "write"]
    /\ UNCHANGED <<sessionVars, dirs, clock, HAS_OFXTOOLS, entry, args, o_environ, call,
                   stmtrq, network, response, result, o_stdout, o_exit, o_fault>>

\* download_ofx: open raises OSError, `except Exception` returns the failure;
\* no file is created and an existing one is left as it was
OpenFileFails(i) ==
    /\ o_pc[i] = "open"
    /\ \E msg \in OpenErrors(Fname(i, clock)) :
          Return(i, [success |-> FALSE, error |-> msg, files |-> <<>>,
                     institution |-> call[i][1].institution])
    /\ UNCHANGED <<sessionVars, fsVars, clock, HAS_OFXTOOLS, entry, args, o_environ, call,
                   stmtrq, network, response, wrote, o_stdout, o_exit, o_fault>>

\* download_ofx: response.read() raises inside the with block, `except Exception`
\* returns the failure; nothing was written to the file open has truncated
ReadFails(i) ==
    /\ o_pc[i] = "write"
    /\ \E msg \in ReadErrors :
          Return(i, [success |-> FALSE, error |-> msg, files |-> <<>>,
                     institution |-> call[i][1].institution])
    /\ UNCHANGED <<sessionVars, fsVars, clock, HAS_OFXTOOLS, entry, args, o_environ, call,
                   stmtrq, network, response, wrote, o_stdout, o_exit, o_fault>>

\* download_ofx: the bytes read are written, the file closed and the success returned
WriteFile(i) ==
    LET path == wrote[i][1].path
    IN  /\ o_pc[i] = "write"
        /\ files' = WriteBytes(files, path, WriteAt0(files[path].data, ResponseBytes), i)
        /\ wrote' = [wrote EXCEPT ![i] = <<[@[1] EXCEPT !.complete = TRUE]>>]
        /\ Return(i, [success |-> TRUE, files |-> <<path>>,
                      institution |-> call[i][1].institution])
        /\ UNCHANGED <<sessionVars, dirs, clock, HAS_OFXTOOLS, entry, args, o_environ, call,
                       stmtrq, network, response, o_stdout, o_exit, o_fault>>

\* download_ofx: f.write or the close raises, `except Exception` returns the
\* failure; the file stays, with none or a part of the bytes
WriteFileFails(i) ==
    LET path == wrote[i][1].path
    IN  /\ o_pc[i] = "write"
        /\ \E f \in WriteFailures :
              /\ files' = WriteBytes(files, path, WriteAt0(files[path].data, f.data), i)
              /\ Return(i, [success |-> FALSE, error |-> f.error, files |-> <<>>,
                            institution |-> call[i][1].institution])
        /\ UNCHANGED <<sessionVars, dirs, clock, HAS_OFXTOOLS, entry, args, o_environ, call,
                       stmtrq, network, response, wrote, o_stdout, o_exit, o_fault>>

\* __main__: the result is printed and the exit status set from it
MainPrintResult(i) ==
    /\ o_pc[i] = "return"
    /\ o_stdout' = [o_stdout EXCEPT ![i] = Append(@, result[i][1])]
    /\ o_exit' = [o_exit EXCEPT ![i] = IF result[i][1].success THEN <<0>> ELSE <<1>>]
    /\ o_pc' = [o_pc EXCEPT ![i] = "exited"]
    /\ UNCHANGED <<sessionVars, fsVars, clock, HAS_OFXTOOLS, entry, args, o_environ, call,
                   stmtrq, network, response, wrote, result, o_fault>>

\* the wall clock advances while an invocation runs
Tick ==
    /\ \E i \in Invocations : Running(i)
    /\ clock < MaxClock
    /\ clock' = clock + 1
    /\ UNCHANGED <<sessionVars, fsVars, HAS_OFXTOOLS, entry, args, o_environ, call, o_pc,
                   stmtrq, network, response, wrote, result, o_stdout, o_exit, o_fault>>

(***************************************************************************)
(* Initial states and specification.                                       *)
(***************************************************************************)
\* the --output default
DefaultOutput == "/app/downloads"

\* the environments of a run for inst: its two variables, each unset, empty or set
MainEnvirons(inst) ==
    Environs({Upper(inst) \o "_USERNAME", Upper(inst) \o "_PASSWORD"}, "secret")

\* both variables of inst are set and non-empty in env
HasCredentials(env, inst) ==
    /\ EnvironGet(env, Upper(inst) \o "_USERNAME", "") # ""
    /\ EnvironGet(env, Upper(inst) \o "_PASSWORD", "") # ""

\* client.py run from the command line: argparse admits the registry's keys only;
\* --output and --days vary in the runs that get to use them (those with both
\* credentials) and have their defaults in the others
MainInputs ==
    UNION {
      {[entry |-> "main",
        args  |-> [institution |-> inst, days |-> days, output |-> out],
        environ |-> env,
        call  |-> <<>>] :
          out \in DownloadsDirs, days \in DaysInputs,
          env \in {e \in MainEnvirons(inst) : HasCredentials(e, inst)}}
      \cup
      {[entry |-> "main",
        args  |-> [institution |-> inst, days |-> DefaultDays, output |-> DefaultOutput],
        environ |-> env,
        call  |-> <<>>] :
          env \in {e \in MainEnvirons(inst) : ~HasCredentials(e, inst)}} :
      inst \in DOMAIN INSTITUTIONS}

\* download_ofx called as a function, as __main__ calls it by default
FuncInputs ==
    {[entry |-> "func",
      args  |-> [institution |-> inst, days |-> days, output |-> DefaultOutput],
      environ |-> <<>>,
      call  |-> <<[institution |-> inst, username |-> "user", password |-> "secret",
                   days |-> days, output_dir |-> PathJoin(DefaultOutput, inst)]>>] :
        inst \in CallableIds, days \in DaysInputs}

SessionOff ==
    /\ s_pc = "off"
    /\ institutions = <<>>
    /\ downloads_dir = ""
    /\ s_environ = <<>>
    /\ idx = 1
    /\ cfg = EmptyDict
    /\ s_stderr = <<>>
    /\ artifact = <<>>
    /\ s_stdout = <<>>
    /\ s_exit = <<>>
    /\ s_fault = <<>>

OfxOff ==
    /\ clock = 0
    /\ HAS_OFXTOOLS = TRUE
    /\ entry = [i \in Invocations |-> "off"]
    /\ args = [i \in Invocations |-> [institution |-> "", days |-> DefaultDays, output |-> ""]]
    /\ o_environ = [i \in Invocations |-> <<>>]
    /\ call = [i \in Invocations |-> <<>>]
    /\ o_pc = [i \in Invocations |-> "off"]
    /\ stmtrq = [i \in Invocations |-> <<>>]
    /\ network = [i \in Invocations |-> <<>>]
    /\ response = [i \in Invocations |-> <<>>]
    /\ wrote = [i \in Invocations |-> <<>>]
    /\ result = [i \in Invocations |-> <<>>]
    /\ o_stdout = [i \in Invocations |-> <<>>]
    /\ o_exit = [i \in Invocations |-> <<>>]
    /\ o_fault = [i \in Invocations |-> <<>>]

\* config.py starts: arguments parsed, environment read
InitSession ==
    /\ s_pc = "build_config"
    /\ institutions \in SeqsOf(RequestableIds, 1, MaxReq)
    /\ downloads_dir \in DownloadsDirs
    /\ s_environ \in Environs(RequestedEnvKeys(institutions), "secret")
    /\ idx = 1
    /\ cfg = EmptyDict
    /\ s_stderr = <<>>
    /\ artifact \in {<<>>, <<StaleArtifact>>}
    /\ s_stdout = <<>>
    /\ s_exit = <<>>
    /\ s_fault = <<>>
    /\ dirs = {}
    /\ files = <<>>
    /\ OfxOff

\* a statement an earlier run left, at the path a run of the first second computes
StaleStatementPath == "/app/downloads/chase/chase_20240101_000000.ofx"

StaleStatement == [data |-> "OLDOLDOLDOLDOLDOLDOLD", by |-> 0]

\* the invocations of client.py / download_ofx start, in an empty file system
\* or in one that holds the statement of an earlier run
InitOfx ==
    /\ SessionOff
    /\ \/ /\ dirs = {}
          /\ files = <<>>
       \/ /\ dirs = {"/app/downloads", "/app/downloads/chase"}
          /\ files = [p \in {StaleStatementPath} |-> StaleStatement]
    /\ clock = 0
    /\ HAS_OFXTOOLS \in BOOLEAN
    /\ \E inp \in [Invocations -> MainInputs \cup FuncInputs] :
          /\ entry = [i \in Invocations |-> inp[i].entry]
          /\ args = [i \in Invocations |-> inp[i].args]
          /\ o_environ = [i \in Invocations |-> inp[i].environ]
          /\ call = [i \in Invocations |-> inp[i].call]
          /\ o_pc = [i \in Invocations |->
                        IF inp[i].entry = "main" THEN "main" ELSE "download_ofx"]
    /\ stmtrq = [i \in Invocations |-> <<>>]
    /\ network = [i \in Invocations |-> <<>>]
    /\ response = [i \in Invocations |-> <<>>]
    /\ wrote = [i \in Invocations |-> <<>>]
    /\ result = [i \in Invocations |-> <<>>]
    /\ o_stdout = [i \in Invocations |-> <<>>]
    /\ o_exit = [i \in Invocations |-> <<>>]
    /\ o_fault = [i \in Invocations |-> <<>>]

Init == InitSession \/ InitOfx

Next ==
    \/ BuildConfigSkipUnknown
    \/ BuildConfigSkipNoCredentials
    \/ BuildConfigAdd
    \/ BuildConfigMkdirFails
    \/ BuildConfigReturn
    \/ MainNoCredentials
    \/ MainWriteConfig
    \/ MainOpenConfigFails
    \/ MainWriteConfigFails
    \/ \E i \in Invocations : MainMissingCredentials(i)
    \/ \E i \in Invocations : MainCall(i)
    \/ \E i \in Invocations : DownloadNoOfxtools(i)
    \/ \E i \in Invocations : DownloadUnknownInstitution(i)
    \/ \E i \in Invocations : DownloadMkdir(i)
    \/ \E i \in Invocations : DownloadMkdirFails(i)
    \/ \E i \in Invocations : DownloadWindowOverflows(i)
    \/ \E i \in Invocations : ConstructorFails(i)
    \/ \E i \in Invocations : RequestStatements(i)
    \/ \E i \in Invocations : RequestFails(i)
    \/ \E i \in Invocations : OpenFile(i)
    \/ \E i \in Invocations : OpenFileFails(i)
    \/ \E i \in Invocations : ReadFails(i)
    \/ \E i \in Invocations : WriteFile(i)
    \/ \E i \in Invocations : WriteFileFails(i)
    \/ \E i \in Invocations : MainPrintResult(i)
    \/ Tick

Spec == Init /\ [][Next]_vars

(***************************************************************************)
(* Vocabulary of the properties.                                           *)
(***************************************************************************)
\* the environment variable is set to a non-empty string
IsSet(env, key) == key \in DOMAIN env /\ env[key] # ""

\* a session institution with both of its credential variables non-empty
Eligible(inst) ==
    /\ inst \in {"capitalone", "macu", "m1finance"}
    /\ IsSet(s_environ, ENV_KEYS[inst][1])
    /\ IsSet(s_environ, ENV_KEYS[inst][2])

\* a session institution with exactly one half of its credential pair
HalfConfigured(inst) ==
    /\ inst \in {"capitalone", "macu", "m1finance"}
    /\ IsSet(s_environ, ENV_KEYS[inst][1]) # IsSet(s_environ, ENV_KEYS[inst][2])

EligibleRequested == {inst \in Range(institutions) : Eligible(inst)}

\* position at which x is first requested
FirstIndex(s, x) == CHOOSE i \in 1..Len(s) : s[i] = x /\ \A j \in 1..(i - 1) : s[j] # x

\* config.py ended by sys.exit or by falling off the end, not by an exception
SessionEnded == s_pc = "exited" /\ s_fault = <<>>

\* config.py printed exactly the result r
SessionPrinted == Len(s_stdout) = 1

\* client.py run i lacks a credential in its environment
LacksCredential(i) ==
    \/ ~IsSet(o_environ[i], Upper(args[i].institution) \o "_USERNAME")
    \/ ~IsSet(o_environ[i], Upper(args[i].institution) \o "_PASSWORD")

\* the timestamps of the form YYYYMMDD_HHMMSS within the modelled hour
Stamps ==
    {"20240101_00" \o TwoDigits(m) \o TwoDigits(sec) : m \in 0..59, sec \in 0..59}

\* download_ofx of invocation i has ended
CallEnded(i) == o_pc[i] \in {"return", "returned", "raised", "exited"} /\ call[i] # <<>>

(***************************************************************************)
(* C1                                                                      *)
(***************************************************************************)
\* C1: when at least one requested institution has both credentials non-empty,
\* config.py prints one result, with status "ok", whose sources are exactly the
\* requested institutions with both credentials, each once, in the order in
\* which they were (first) requested.
C1_SourcesAreEligibleInOrder ==
    (SessionEnded /\ EligibleRequested # {}) =>
        /\ SessionPrinted
        /\ s_stdout[1].status = "ok"
        /\ LET src == s_stdout[1].sources
           IN  /\ Range(src) = EligibleRequested
               /\ \A i, j \in 1..Len(src) :
                     i < j => /\ src[i] # src[j]
                              /\ FirstIndex(institutions, src[i])
                                   < FirstIndex(institutions, src[j])

\* two institutions requested, one with half a credential pair: only the other is a source
C1_Witness ==
    /\ SessionEnded
    /\ Len(institutions) = 2
    /\ HalfConfigured(institutions[1])
    /\ Eligible(institutions[2])
    /\ s_stdout = <<[status |-> "ok", config |-> config_path,
                     sources |-> <<institutions[2]>>]>>

\* two eligible institutions requested: the sources keep the requested order
C1_WitnessOrder ==
    /\ SessionEnded
    /\ Len(institutions) = 2
    /\ institutions[1] # institutions[2]
    /\ SessionPrinted
    /\ s_stdout[1].status = "ok"
    /\ s_stdout[1].sources = institutions

(***************************************************************************)
(* C2                                                                      *)
(***************************************************************************)
\* C2: when no requested institution has both credentials non-empty, the config
\* artifact is never written (config_path holds nothing, or what an earlier run
\* left there), and config.py ends having printed one result with status
\* "error" and with exit code 1.
C2_NoCredentialsIsError ==
    (s_pc # "off" /\ EligibleRequested = {}) =>
        /\ artifact \in {<<>>, <<StaleArtifact>>}
        /\ s_pc = "exited" =>
              /\ s_fault = <<>>
              /\ SessionPrinted
              /\ s_stdout[1].status = "error"
              /\ s_exit = <<1>>

\* a request of a half-configured institution and an unknown one has ended
C2_Witness ==
    /\ s_pc = "exited"
    /\ EligibleRequested = {}
    /\ Len(institutions) = 2
    /\ HalfConfigured(institutions[1])
    /\ s_exit = <<1>>

(***************************************************************************)
(* C3                                                                      *)
(***************************************************************************)
\* C3: a run of client.py whose username or password variable is unset or empty
\* never sends a statement request, and ends having printed exactly the
\* "Missing credentials" failure with an empty file list, with exit code 1.
C3_MissingCredentials ==
    \A i \in Invocations :
        (entry[i] = "main" /\ LacksCredential(i)) =>
            /\ network[i] = <<>>
            /\ call[i] = <<>>
            /\ o_pc[i] \in {"main", "exited"}
            /\ o_pc[i] = "exited" =>
                  /\ o_stdout[i] = <<[success |-> FALSE, error |-> "Missing credentials",
                                      files |-> <<>>]>>
                  /\ o_exit[i] = <<1>>

\* a run with the username set and the password empty has ended
C3_Witness ==
    \E i \in Invocations :
        /\ entry[i] = "main"
        /\ IsSet(o_environ[i], Upper(args[i].institution) \o "_USERNAME")
        /\ Upper(args[i].institution) \o "_PASSWORD" \in DOMAIN o_environ[i]
        /\ ~IsSet(o_environ[i], Upper(args[i].institution) \o "_PASSWORD")
        /\ o_pc[i] = "exited"

(***************************************************************************)
(* C4                                                                      *)
(***************************************************************************)
\* C4 as claimed: download_ofx called with an institution outside {chase, usaa}
\* returns the "Unknown institution" failure and sends no statement request.
C4_Claimed ==
    \A i \in Invocations :
        (CallEnded(i) /\ call[i][1].institution \notin {"chase", "usaa"}) =>
            /\ network[i] = <<>>
            /\ result[i] = <<[success |-> FALSE,
                              error   |-> "Unknown institution: " \o call[i][1].institution,
                              files   |-> <<>>]>>

\* C4 amended: download_ofx called with an institution outside {chase, usaa}
\* never sends a statement request and makes no directory, and returns a failure
\* with an empty file list, whose error is "Unknown institution: <id>" when
\* ofxtools was imported and "ofxtools not installed" when it was not.
C4_UnknownInstitution ==
    \A i \in Invocations :
        (call[i] # <<>> /\ call[i][1].institution \notin {"chase", "usaa"}) =>
            /\ network[i] = <<>>
            /\ call[i][1].output_dir \notin dirs
            /\ o_fault[i] = <<>>
            /\ CallEnded(i) =>
                  result[i] = <<[success |-> FALSE,
                                 error   |-> IF HAS_OFXTOOLS
                                             THEN "Unknown institution: "
                                                    \o call[i][1].institution
                                             ELSE "ofxtools not installed",
                                 files   |-> <<>>]>>

\* with ofxtools imported, a call with an unknown institution has returned
C4_Witness ==
    \E i \in Invocations :
        /\ HAS_OFXTOOLS
        /\ CallEnded(i)
        /\ call[i][1].institution = "venmo"
        /\ result[i] # <<>>

(***************************************************************************)
(* C5                                                                      *)
(***************************************************************************)
\* the path <output>/<institution>/<institution>_<YYYYMMDD_HHMMSS>.ofx
IsStatementPath(p, output, institution) ==
    \E ts \in Stamps :
        p = output \o "/" \o institution \o "/" \o institution \o "_" \o ts \o ".ofx"

\* run i created exactly one file, at the path of the claim, and reported it
OneFileReported(i) ==
    /\ wrote[i] # <<>>
    /\ wrote[i][1].complete
    /\ wrote[i][1].path \in DOMAIN files
    /\ IsStatementPath(wrote[i][1].path, args[i].output, args[i].institution)
    /\ \A p \in DOMAIN files : files[p].by = i => p = wrote[i][1].path
    /\ result[i] # <<>>
    /\ result[i][1].success = TRUE
    /\ result[i][1].files = <<wrote[i][1].path>>
    /\ o_stdout[i] = result[i]
    /\ o_exit[i] = <<0>>

\* C5 as claimed: whenever the protocol session returned a response, the run of
\* client.py created exactly one file, at <output>/<institution>/
\* <institution>_<YYYYMMDD_HHMMSS>.ofx, and printed success with that path as
\* the only entry of files.
C5_Claimed ==
    \A i \in Invocations :
        (entry[i] = "main" /\ response[i] # <<>> /\ o_pc[i] = "exited") =>
            OneFileReported(i)

\* C5 amended: whenever the protocol session returned a response, the run of
\* client.py either opened, read and wrote without error, and then created
\* exactly one file, at the claimed path, and printed success with that path as
\* the only entry of files; or an exception was raised by open, by
\* response.read() or by the write, and then it printed a failure with an error
\* field and an empty file list, with exit code 1.  In the failure case, when
\* open raised, the run created or changed no file; when the read or the write
\* raised, the run created or truncated the file at the claimed path and no
\* other, and that file holds nothing or a part of the response, unless another
\* invocation wrote the whole response to the same path (and reports it).
C5_SuccessWritesOneFile ==
    \A i \in Invocations :
        (entry[i] = "main" /\ response[i] # <<>> /\ o_pc[i] = "exited") =>
            \/ OneFileReported(i)
            \/ /\ result[i] # <<>>
               /\ result[i][1].success = FALSE
               /\ "error" \in DOMAIN result[i][1]
               /\ result[i][1].files = <<>>
               /\ o_stdout[i] = result[i]
               /\ o_exit[i] = <<1>>
               /\ wrote[i] = <<>> => \A p \in DOMAIN files : files[p].by # i
               /\ wrote[i] # <<>> =>
                     LET path == wrote[i][1].path
                     IN  /\ ~wrote[i][1].complete
                         /\ path \in DOMAIN files
                         /\ IsStatementPath(path, args[i].output, args[i].institution)
                         /\ \A p \in DOMAIN files : files[p].by = i => p = path
                         /\ \/ files[path].data \in {"", PartialBytes}
                            \/ /\ files[path].data = ResponseBytes
                               /\ \E j \in Invocations \ {i} :
                                     /\ wrote[j] # <<>>
                                     /\ wrote[j][1].complete
                                     /\ wrote[j][1].path = path
                                     /\ result[j][1].files = <<path>>

\* a run has ended after a response that it wrote to its statement file
C5_Witness ==
    \E i \in Invocations :
        /\ entry[i] = "main"
        /\ response[i] # <<>>
        /\ o_pc[i] = "exited"
        /\ OneFileReported(i)

(***************************************************************************)
(* C6                                                                      *)
(***************************************************************************)
\* a DownloadResult: success has files, failure has a non-empty error message
WellFormedResult(r) ==
    /\ r.success = TRUE => r.files # <<>>
    /\ r.success = FALSE => ("error" \in DOMAIN r /\ r.error # "")

\* C6: every DownloadResult returned by download_ofx or printed by client.py has
\* a non-empty file list when success is true and a non-empty error message
\* when success is false.
C6_ResultInvariant ==
    \A i \in Invocations :
        /\ \A k \in 1..Len(result[i]) : WellFormedResult(result[i][k])
        /\ \A k \in 1..Len(o_stdout[i]) : WellFormedResult(o_stdout[i][k])

(***************************************************************************)
(* C7                                                                      *)
(***************************************************************************)
\* C7: no process ends by an unhandled exception, and every process
\* that exits non-zero has printed a JSON result.
C7_Claimed ==
    /\ s_fault = <<>>
    /\ s_exit = <<1>> => s_stdout # <<>>
    /\ \A i \in Invocations :
          /\ o_fault[i] = <<>>
          /\ o_exit[i] = <<1>> => o_stdout[i] # <<>>

\* C7, what the code does: a failure of the protocol session or of the statement file write,
\* missing credentials, a missing library, an unknown institution and an empty
\* session config are each reported as one JSON failure result before the exit
\* with code 1; a failure to create an output directory (either pipeline), to
\* compute the request window, or to open or write the config artifact is not
\* captured: the process ends by the unhandled exception, with exit status 1
\* and no JSON result.
C7_FailuresReported ==
    /\ s_pc = "exited" =>
          IF s_fault = <<>>
          THEN /\ SessionPrinted
               /\ s_exit = IF s_stdout[1].status = "ok" THEN <<0>> ELSE <<1>>
          ELSE /\ s_fault[1] \in {"mkdir", "open_config", "write_config"}
               /\ s_stdout = <<>>
               /\ s_exit = <<1>>
    /\ \A i \in Invocations :
          (entry[i] = "main" /\ o_pc[i] = "exited") =>
              IF o_fault[i] = <<>>
              THEN /\ Len(o_stdout[i]) = 1
                   /\ o_exit[i] = IF o_stdout[i][1].success THEN <<0>> ELSE <<1>>
              ELSE /\ o_fault[i] \in {<<"mkdir">>, <<"dtstart">>}
                   /\ network[i] = <<>>
                   /\ o_stdout[i] = <<>>
                   /\ o_exit[i] = <<1>>

\* a run whose statement request failed has printed the failure and exited 1
C7_Witness ==
    \E i \in Invocations :
        /\ entry[i] = "main"
        /\ o_pc[i] = "exited"
        /\ network[i] # <<>>
        /\ response[i] = <<>>
        /\ Len(o_stdout[i]) = 1
        /\ o_stdout[i][1].success = FALSE
        /\ o_exit[i] = <<1>>

(***************************************************************************)
(* C8                                                                      *)
(***************************************************************************)
\* the entry of the artifact for inst is the one of the claim
HasEntry(entries, inst) ==
    \E k \in 1..Len(entries) :
        /\ entries[k].key = inst
        /\ entries[k].val.output_format = "ofx"
        /\ entries[k].val.output_directory = downloads_dir \o "/" \o inst

\* the requested institutions build_config has gone through
Processed == {institutions[k] : k \in 1..(idx - 1)}

\* C8: at every point of a run of config.py, the synthesized config cfg has an
\* entry for exactly the eligible institutions among those build_config has gone
\* through, each keyed by the institution, with output_format "ofx" and
\* output_directory <downloads_dir>/<institution>, a directory that has been
\* created; so once build_config has returned, cfg has such an entry for every
\* eligible requested institution and no entry for any other; and the config
\* artifact of a run that ended without an unhandled exception, for a request
\* with an eligible institution, holds exactly the entries of cfg (what a run
\* ended by an unhandled exception leaves is the matter of C7).
C8_ConfigEntries ==
    s_pc # "off" =>
        /\ Range(cfg.keys) = {inst \in Processed : Eligible(inst)}
        /\ \A inst \in Range(cfg.keys) :
              /\ cfg.val[inst].output_format = "ofx"
              /\ cfg.val[inst].output_directory = downloads_dir \o "/" \o inst
              /\ (downloads_dir \o "/" \o inst) \in dirs
        /\ (s_pc = "main" \/ (s_pc = "exited" /\ s_fault # <<"mkdir">>)) =>
              Range(cfg.keys) = EligibleRequested
        /\ (SessionEnded /\ EligibleRequested # {}) =>
              /\ artifact # <<>>
              /\ artifact[1].run = "this"
              /\ artifact[1].complete
              /\ Len(artifact[1].entries) = Cardinality(EligibleRequested)
              /\ \A inst \in EligibleRequested : HasEntry(artifact[1].entries, inst)
              /\ \A e \in Range(artifact[1].entries) : e.key \in EligibleRequested

\* the artifact was written for a request with an eligible and a half-configured institution
C8_Witness ==
    /\ s_pc = "exited"
    /\ s_fault = <<>>
    /\ artifact # <<>>
    /\ artifact[1].run = "this"
    /\ artifact[1].complete
    /\ Len(artifact[1].entries) = 1
    /\ \E inst \in Range(institutions) : HalfConfigured(inst)
    /\ \E inst \in Range(institutions) : Eligible(inst)

(***************************************************************************)
(* C9                                                                      *)
(***************************************************************************)
\* invocation i wrote its statement and returned the success
WroteStatement(i) == wrote[i] # <<>> /\ wrote[i][1].complete

\* C9: two invocations against the same output directory that each
\* wrote a statement wrote distinct paths, and each file still holds what its
\* invocation wrote.
C9_Claimed ==
    \A i, j \in Invocations :
        (i # j /\ WroteStatement(i) /\ WroteStatement(j)
           /\ args[i].output = args[j].output) =>
            /\ wrote[i][1].path # wrote[j][1].path
            /\ files[wrote[i][1].path].by = i

\* C9, what the code does: two invocations that each opened a statement file opened the same path
\* exactly when they have the same output directory and the same institution
\* and computed the file name within the same wall-clock second; otherwise
\* the paths are distinct and each file holds what its invocation wrote.
C9_DistinctUnlessSameSecond ==
    \A i, j \in Invocations :
        (i # j /\ wrote[i] # <<>> /\ wrote[j] # <<>>) =>
            /\ (wrote[i][1].path = wrote[j][1].path) <=>
                  /\ call[i][1].output_dir = call[j][1].output_dir
                  /\ call[i][1].institution = call[j][1].institution
                  /\ wrote[i][1].second = wrote[j][1].second
            /\ wrote[i][1].path # wrote[j][1].path =>
                  files[wrote[i][1].path].by = i

\* two invocations for one institution and output wrote in different seconds
C9_Witness ==
    \E i, j \in Invocations :
        /\ i # j
        /\ WroteStatement(i)
        /\ WroteStatement(j)
        /\ call[i][1].output_dir = call[j][1].output_dir
        /\ call[i][1].institution = call[j][1].institution
        /\ wrote[i][1].second # wrote[j][1].second
        /\ wrote[i][1].path # wrote[j][1].path

(***************************************************************************)
(* C10                                                                     *)
(***************************************************************************)
\* an identity outside the session registry was requested
UnknownRequested == \E inst \in Range(institutions) :
                        inst \notin {"capitalone", "macu", "m1finance"}

\* C10 as claimed: a request that names an identity outside the session registry
\* ends with an error result.
C10_Claimed ==
    (SessionEnded /\ UnknownRequested) =>
        /\ SessionPrinted
        /\ s_stdout[1].status = "error"

\* C10 amended: an identity outside the session registry is skipped without a
\* diagnostic and without an entry in cfg; the invocation ends with an error
\* result exactly when no requested institution is eligible, and with status
\* "ok" otherwise.
C10_UnknownIsSkipped ==
    (SessionEnded /\ UnknownRequested) =>
        /\ \A inst \in Range(institutions) :
              inst \notin {"capitalone", "macu", "m1finance"} =>
                  /\ inst \notin Range(cfg.keys)
                  /\ inst \notin Range(s_stderr)
        /\ SessionPrinted
        /\ s_stdout[1].status = IF EligibleRequested = {} THEN "error" ELSE "ok"

\* an unknown identity requested first, then an eligible institution: status ok
C10_Witness ==
    /\ SessionEnded
    /\ Len(institutions) = 2
    /\ institutions[1] = "venmo"
    /\ Eligible(institutions[2])
    /\ SessionPrinted
    /\ s_stdout[1].status = "ok"

====
